---- MODULE Spec2Model ----
(***************************************************************************)
(* Model of @zodyac/zod-mongoose: the translation of a zod schema tree    *)
(* into a mongoose schema definition (src/src/index.ts), the classifier   *)
(* it dispatches on (src/src/assertions) and the extension of the zod     *)
(* library and the identifier builders (src/src/extension.ts).            *)
(*                                                                         *)
(* JavaScript values are encoded as follows.  An optional value is a      *)
(* tuple: << >> is undefined, <<v>> is v.  A default producer () => v is  *)
(* <<"fn", v>>.  A thrown exception is a record with a field `error`.     *)
(* An object literal is a record; a plain object filled key by key is a   *)
(* record with the single field `fields`, a sequence of [key, val] in     *)
(* insertion order.  A descriptor's `type` is the name of the constructor *)
(* ("String", "ObjectId", "Map", ...); the one-element array [inner] of   *)
(* parseArray is type "Array" with the element in `element`, and the      *)
(* plain object of an optional sub-document is type "Object" with its     *)
(* entries in `fields`.                                                    *)
(***************************************************************************)
EXTENDS Integers, Sequences, FiniteSets, TLC

\* ------------------------------------------------------------------ bounds
\* Largest number of builder calls on the path from a node to its deepest leaf.
MaxDepth == 3

\* ------------------------------------------------------------------ values
Undefined == << >>
Some(v) == <<v>>
Fn(v) == <<"fn", v>>

\* The copies of the zod library: "own" is the copy index.ts and extension.ts
\* import, "foreign" is another copy loaded by the application.
Libs == {"own", "foreign"}

Refs == {"Company", "Store"}
RefPaths == {"store"}
DefaultVals == {"d1"}
\* The (check, message) pairs refine is called with.
Refinements ==
  { [check |-> "p1", message |-> Some("m1")],
    [check |-> "p2", message |-> Undefined] }
EffectTypes == {"refinement", "transform", "preprocess"}

VARIABLES
  zod_extended,  \* extension.ts: module flag
  patched,       \* the library copies whose prototypes extendZod has modified
  userLib,       \* the library copy the application builds its schemas with
  mangled,       \* the library copies whose class names the bundler has renamed
  cur,           \* <<n>>: the schema node n under construction; << >>: none
  schema,        \* <<s>>: the root object of the last zodSchemaRaw call
  result,        \* <<r>>: what that call returned or threw
  refCalls,      \* the collections named for the identifier under construction:
                 \* the argument of zId / zUUID, then that of each .ref call
  lastExtend     \* <<z_0>>: the argument of the last extendZod call; << >>: none

vars ==
  <<zod_extended, patched, userLib, mangled, cur, schema, result, refCalls, lastExtend>>

\* ------------------------------------------------------------------ nodes
\* A schema node.  kind is the zod class, ctor its constructor.name, lib the
\* copy that built it; zm_* are the own properties this package puts on it.
Node(kind, lib, ctor) ==
  [ kind |-> kind, lib |-> lib, ctor |-> ctor,
    zm_type |-> Undefined, zm_ref |-> Undefined, zm_refPath |-> Undefined,
    zm_unique |-> Undefined, zm_sparse |-> Undefined,
    min |-> Undefined, max |-> Undefined,
    values |-> << >>, keys |-> << >>, kids |-> << >>,
    defaultValue |-> Undefined, effect |-> Undefined ]

CtorName(kind, lib) == IF lib \in mangled THEN "e" ELSE "Zod" \o kind

\* z.<kind>() of the library copy lib.
Make(kind, lib) == Node(kind, lib, CtorName(kind, lib))

\* ------------------------------------------------------------------ classifier
\* The zod classes each assertion key stands for.
KindsOf(key) ==
  CASE key = "string" -> {"String"}
    [] key = "number" -> {"Number"}
    [] key = "object" -> {"Object"}
    [] key = "array" -> {"Array"}
    [] key = "boolean" -> {"Boolean"}
    [] key = "enumerable" -> {"Enum"}
    [] key = "nativeEnumerable" -> {"NativeEnum"}
    [] key = "nativeEnum" -> {"NativeEnum"}
    [] key = "date" -> {"Date"}
    [] key = "def" -> {"Default"}
    [] key = "optional" -> {"Optional"}
    [] key = "nullable" -> {"Nullable"}
    [] key = "union" -> {"Union"}
    [] key = "any" -> {"Any"}
    [] key = "mapOrRecord" -> {"Map", "Record"}
    [] key = "effect" -> {"Effects"}

\* The keys of the three assertion objects, in declaration order.
ConstructorKeys ==
  << "string", "number", "object", "array", "boolean", "enumerable",
     "nativeEnumerable", "date", "def", "optional", "nullable", "union", "any",
     "mapOrRecord", "effect" >>

InstanceKeys == ConstructorKeys

StaticNameKeys ==
  << "string", "number", "object", "array", "boolean", "enumerable",
     "nativeEnum", "date", "def", "optional", "nullable", "union", "any",
     "mapOrRecord", "effect" >>

Range(s) == { s[i] : i \in DOMAIN s }

\* extendZod's TypesMap: the classes whose prototype gets a __zm_type.
TypesMap ==
  { "String", "Number", "Object", "Array", "Boolean", "Enum", "Date", "Default",
    "Optional", "Nullable", "Union", "Any", "Map", "Record", "Effects" }

\* What reading f.__zm_type gives: the own property, else the prototype's.
ZmTypeOf(f) ==
  IF f.zm_type # Undefined THEN f.zm_type
  ELSE IF f.lib \in patched /\ f.kind \in TypesMap THEN Some(f.kind)
  ELSE Undefined

\* constructor.ts: f.constructor.name === "Zod<Kind>"
aConstructor(key, f) == \E k \in KindsOf(key) : f.ctor = "Zod" \o k

\* instanceOf.ts: f instanceof Zod<Kind>, the class of the package's own copy
aInstance(key, f) == f.lib = "own" /\ f.kind \in KindsOf(key)

\* staticNames.ts: "__zm_type" in f && f.__zm_type === "<Kind>"
aStaticName(key, f) == \E k \in KindsOf(key) : ZmTypeOf(f) = Some(k)

Assertions == << "aConstructor", "aInstance", "aStaticName" >>

AssertionKeys(a) ==
  CASE a = "aConstructor" -> Range(ConstructorKeys)
    [] a = "aInstance" -> Range(InstanceKeys)
    [] a = "aStaticName" -> Range(StaticNameKeys)

AssertionApply(a, key, f) ==
  CASE a = "aConstructor" -> aConstructor(key, f)
    [] a = "aInstance" -> aInstance(key, f)
    [] a = "aStaticName" -> aStaticName(key, f)

\* assertions.some((assertion) => assertion[key](f)), from the i-th assertion
\* on: "true", "false", or "throw" when assertion[key] is not a function.
RECURSIVE SomeAssertion(_, _, _)
SomeAssertion(i, key, f) ==
  IF i > Len(Assertions) THEN "false"
  ELSE IF key \notin AssertionKeys(Assertions[i]) THEN "throw"
  ELSE IF AssertionApply(Assertions[i], key, f) THEN "true"
  ELSE SomeAssertion(i + 1, key, f)

\* assertions.ts: the combined classifier, one predicate per key of aConstructor.
zmAssert(key, f) == SomeAssertion(1, key, f)

\* custom.ts
objectId(f) == f.zm_type = Some("ObjectId")

uuid(f) == f.zm_type = Some("UUID")

\* ------------------------------------------------------------------ translator
Null == [isNull |-> TRUE]

IsNull(x) == "isNull" \in DOMAIN x

Thrown(x) == "error" \in DOMAIN x

\* Calling assertion[key] when the assertion object has no such key.
NotAFunction == [error |-> "TypeError", message |-> <<"assertion[key] is not a function">>]

\* JavaScript truthiness of an optional string.
Truthy(opt) == opt # Undefined /\ opt[1] # ""

\* A default parameter value, and the ?? operator.
OrElse(opt, d) == IF opt = Undefined THEN d ELSE opt[1]

WithValidate(output, validate) ==
  IF validate # Undefined THEN output @@ [validate |-> validate[1]] ELSE output

parseNumber(field, required, def, unique, validate, sparse) ==
  WithValidate(
    [ type |-> "Number", default |-> def, min |-> field.min, max |-> field.max,
      required |-> required, unique |-> unique, sparse |-> sparse ],
    validate)

\* parseString with a fault: the required flag handed down is ignored.
parseStringNotRequired(field, required, def, unique, validate, sparse) ==
  WithValidate(
    [ type |-> "String", default |-> def, required |-> FALSE,
      minLength |-> field.min, maxLength |-> field.max,
      unique |-> unique, sparse |-> sparse ],
    validate)

parseString(field, required, def, unique, validate, sparse) ==
  WithValidate(
    [ type |-> "String", default |-> def, required |-> required,
      minLength |-> field.min, maxLength |-> field.max,
      unique |-> unique, sparse |-> sparse ],
    validate)

parseEnum(values, required, def) ==
  [ type |-> "String", unique |-> FALSE, sparse |-> FALSE, default |-> def,
    enum |-> values, required |-> required ]

parseBoolean(required, def) ==
  [ type |-> "Boolean", default |-> def, required |-> required ]

parseDate(required, def, validate, unique, sparse) ==
  WithValidate(
    [ type |-> "Date", default |-> def, required |-> required,
      unique |-> unique, sparse |-> sparse ],
    validate)

WithRefs(output, ref, refPath) ==
  (IF Truthy(ref) THEN [ref |-> ref[1]] ELSE << >>)
  @@ (IF Truthy(refPath) THEN [refPath |-> refPath[1]] ELSE << >>)
  @@ output

parseObjectId(required, ref, unique, refPath, sparse) ==
  WithRefs(
    [ type |-> "ObjectId", required |-> required,
      unique |-> OrElse(unique, FALSE), sparse |-> OrElse(sparse, FALSE) ],
    ref, refPath)

parseUUID(required, ref, unique, refPath, sparse) ==
  WithRefs(
    [ type |-> "UUID", required |-> required,
      unique |-> OrElse(unique, FALSE), sparse |-> OrElse(sparse, FALSE) ],
    ref, refPath)

parseMixed(required, def) ==
  [ type |-> "Mixed", default |-> def, required |-> required ]

\* The order in which parseField asks the classifier, after the two
\* identifier checks.
DispatchOrder ==
  << "object", "number", "string", "enumerable", "nativeEnumerable", "boolean",
     "date", "array", "def", "optional", "nullable", "union", "any",
     "mapOrRecord", "effect" >>

\* The first check of the if-chain that does not answer false (0: none).
RECURSIVE FirstMatch(_, _)
FirstMatch(field, i) ==
  IF i > Len(DispatchOrder) THEN 0
  ELSE IF zmAssert(DispatchOrder[i], field) # "false" THEN i
  ELSE FirstMatch(field, i + 1)

\* The node a branch of parseField goes on with, with a fault: the optional
\* branch goes on with the wrapper itself.
TargetSelf(field, key) ==
  IF key = "optional" THEN field
  ELSE IF key = "mapOrRecord" THEN field.kids[2]
  ELSE field.kids[1]

\* The node a branch of parseField goes on with: field.element of an array,
\* field._def.innerType of a has-default, optional or nullable wrapper,
\* field._def.options[0] of a union, field.valueSchema of a map or record,
\* field._def.schema of an effect.
Target(field, key) ==
  IF key = "mapOrRecord" THEN field.kids[2] ELSE field.kids[1]

RECURSIVE parseObject(_, _)
RECURSIVE parseField(_, _, _, _)
RECURSIVE parseEntries(_, _, _)

parseArray(required, element, def) ==
  LET innerType == parseField(element, TRUE, Undefined, Undefined) IN
  IF Thrown(innerType) THEN innerType
  ELSE IF IsNull(innerType)
    THEN [error |-> "Error", message |-> <<"Unsupported array type">>]
  ELSE [ type |-> "Array", element |-> innerType, default |-> def,
         required |-> required ]

parseMap(required, valueType, def) ==
  LET pointer == parseField(valueType, TRUE, Undefined, Undefined) IN
  IF Thrown(pointer) THEN pointer
  ELSE IF IsNull(pointer)
    THEN [error |-> "Error", message |-> <<"Unsupported map value type">>]
  ELSE [ type |-> "Map", of |-> pointer, default |-> def, required |-> required ]

parseEffect(field, required, def, refinement) ==
  LET effect == field.effect[1] IN
  IF effect.type = "refinement"
    THEN parseField(Target(field, "effect"), required, def, effect.zm_validation)
  ELSE IF effect.type = "preprocess" \/ effect.type = "transform"
    THEN parseField(Target(field, "effect"), required, def, refinement)
  ELSE Null

parseField(field, required, def, refinement) ==
  IF objectId(field)
    THEN parseObjectId(required, field.zm_ref, field.zm_unique, field.zm_refPath,
                       field.zm_sparse)
  ELSE IF uuid(field)
    THEN parseUUID(required, field.zm_ref, field.zm_unique, field.zm_refPath,
                   field.zm_unique)
  ELSE
    LET i == FirstMatch(field, 1)
        key == IF i = 0 THEN "none" ELSE DispatchOrder[i]
    IN
    IF i = 0 THEN Null
    ELSE IF zmAssert(key, field) = "throw" THEN NotAFunction
    ELSE
      CASE key = "object" -> parseObject(field, required)
        [] key = "number" ->
             parseNumber(field, required, def, OrElse(field.zm_unique, FALSE),
                         refinement, OrElse(field.zm_sparse, FALSE))
        [] key = "string" ->
             parseString(field, required, def, OrElse(field.zm_unique, FALSE),
                         refinement, OrElse(field.zm_sparse, FALSE))
        [] key = "enumerable" -> parseEnum(field.values, required, def)
        [] key = "nativeEnumerable" -> parseEnum(field.values, required, def)
        [] key = "boolean" -> parseBoolean(required, def)
        [] key = "date" ->
             parseDate(required, def, refinement, OrElse(field.zm_unique, FALSE),
                       OrElse(field.zm_sparse, FALSE))
        [] key = "array" -> parseArray(required, Target(field, key), def)
        [] key = "def" ->
             parseField(Target(field, key), required, field.defaultValue, Undefined)
        [] key = "optional" -> parseField(Target(field, key), FALSE, Undefined, Undefined)
        [] key = "nullable" ->
             parseField(Target(field, key), FALSE,
                        IF def # Undefined THEN def ELSE Fn("null"), Undefined)
        [] key = "union" -> parseField(Target(field, key), TRUE, Undefined, Undefined)
        [] key = "any" -> parseMixed(required, def)
        [] key = "mapOrRecord" -> parseMap(required, Target(field, key), def)
        [] key = "effect" -> parseEffect(field, required, def, refinement)

\* parseEntries with a fault: a field that cannot be translated is left out
\* of the output instead of failing the call.
RECURSIVE parseEntriesSkip(_, _, _)
parseEntriesSkip(obj, i, object) ==
  IF i > Len(obj.keys) THEN [fields |-> object]
  ELSE
    LET key == obj.keys[i]
        field == obj.kids[i]
        isObject == zmAssert("object", field)
        f == IF isObject = "throw" THEN NotAFunction
             ELSE IF isObject = "true" THEN parseObject(field, TRUE)
             ELSE parseField(field, TRUE, Undefined, Undefined)
    IN
    IF Thrown(f) \/ IsNull(f) THEN parseEntriesSkip(obj, i + 1, object)
    ELSE parseEntriesSkip(obj, i + 1, Append(object, [key |-> key, val |-> f]))

\* The loop of parseObject from the i-th entry of obj.shape on; object is the
\* plain object filled so far.
parseEntries(obj, i, object) ==
  IF i > Len(obj.keys) THEN [fields |-> object]
  ELSE
    LET key == obj.keys[i]
        field == obj.kids[i]
        isObject == zmAssert("object", field)
        f == IF isObject = "throw" THEN NotAFunction
             ELSE IF isObject = "true" THEN parseObject(field, TRUE)
             ELSE parseField(field, TRUE, Undefined, Undefined)
    IN
    IF Thrown(f) THEN f
    ELSE IF IsNull(f)
      THEN [error |-> "Error",
            message |-> <<"Unsupported field type: ", field.ctor>>]
    ELSE parseEntries(obj, i + 1, Append(object, [key |-> key, val |-> f]))

\* parseObject with a fault: the loop starts at the second entry.
parseObjectOffByOne(obj, required) ==
  LET object == parseEntries(obj, 2, << >>) IN
  IF Thrown(object) THEN object
  ELSE IF ~required
    THEN [type |-> "Object", fields |-> object.fields, required |-> FALSE]
  ELSE object

parseObject(obj, required) ==
  LET object == parseEntries(obj, 1, << >>) IN
  IF Thrown(object) THEN object
  ELSE IF ~required
    THEN [type |-> "Object", fields |-> object.fields, required |-> FALSE]
  ELSE object

zodSchemaRaw(s) == parseObject(s, TRUE)

\* ------------------------------------------------------------------ builders
LeafKinds == {"String", "Number", "Boolean", "Date", "Enum", "NativeEnum", "Any", "Unknown"}

EnumValues == <<"admin", "user">>

Leaf(kind, lib) ==
  IF kind \in {"Enum", "NativeEnum"}
    THEN [Make(kind, lib) EXCEPT !.values = EnumValues]
    ELSE Make(kind, lib)

\* this.refine(check, message) of an unextended library, and as overridden by
\* extendZod: the override stores {validator, message} on the effect.
Refine(inner, check, message) ==
  [ Make("Effects", inner.lib) EXCEPT
      !.kids = <<inner>>,
      !.effect = Some([ type |-> "refinement", check |-> check,
                        zm_validation |->
                          IF inner.lib \in patched
                            THEN Some([validator |-> check, message |-> message])
                            ELSE Undefined ]) ]

\* z.instanceof(cls): a custom check on z.any(), built with superRefine.
InstanceOf(cls) ==
  [ Make("Effects", "own") EXCEPT
      !.kids = <<Make("Any", "own")>>,
      !.effect = Some([ type |-> "refinement", check |-> cls,
                        zm_validation |-> Undefined ]) ]

createId ==
  [ Make("Union", "own") EXCEPT
      !.kids = << Refine(Make("String", "own"), "isValidObjectId", Some("Invalid ObjectId")),
                  InstanceOf("Types.ObjectId") >> ]

zId(ref) == [createId EXCEPT !.zm_type = Some("ObjectId"), !.zm_ref = ref]

createUUID ==
  [ Make("Union", "own") EXCEPT
      !.kids = << Make("String", "own"), InstanceOf("Types.UUID") >> ]

zUUID(ref) == [createUUID EXCEPT !.zm_type = Some("UUID"), !.zm_ref = ref]

IsId(n) == n.zm_type # Undefined

\* The nodes a union, map, record or object is completed with.
Supported == Leaf("String", userLib)

Unsupported == Leaf("Unknown", userLib)

Max2(a, b) == IF a >= b THEN a ELSE b

Count(opt) == IF opt = Undefined THEN 0 ELSE 1

\* The number of builder calls on the longest path of n.
RECURSIVE Depth(_)
RECURSIVE KidsDepth(_, _)
KidsDepth(kids, i) ==
  IF i > Len(kids) THEN 0 ELSE Max2(Depth(kids[i]), KidsDepth(kids, i + 1))

Depth(n) ==
  1 + Count(n.zm_unique) + Count(n.zm_refPath)
    + (IF n.min # Undefined \/ n.max # Undefined THEN 1 ELSE 0)
    + (IF IsId(n) THEN 0 ELSE KidsDepth(n.kids, 1))

Fits(n) == Depth(n) <= MaxDepth

NoCall == schema' = << >> /\ result' = << >>

Env == UNCHANGED <<zod_extended, patched, userLib, mangled, lastExtend>>

\* The .ref calls made on the identifier, which are builder calls as well.
RefDepth(calls) == IF calls = << >> THEN 0 ELSE Len(calls) - 1

\* A builder call that returns n and leaves the collections named as calls.
BuildWith(n, calls) ==
  /\ Fits(n)
  /\ Depth(n) + RefDepth(calls) <= MaxDepth
  /\ cur' = <<n>>
  /\ NoCall
  /\ Env
  /\ refCalls' = calls

Build(n) == BuildWith(n, refCalls)

\* ------------------------------------------------------------------ actions
Init ==
  /\ zod_extended = FALSE
  /\ patched = {}
  /\ userLib \in Libs
  /\ mangled \in {{}, {userLib}}
  /\ cur = << >>
  /\ schema = << >>
  /\ result = << >>
  /\ refCalls = << >>
  /\ lastExtend = << >>

\* extendZod with a fault: no guard, every call modifies the prototypes of z_0.
ExtendZodUnguarded ==
  \E z_0 \in Libs :
    /\ lastExtend' = <<z_0>>
    /\ zod_extended' = TRUE
    /\ patched' = patched \cup {z_0}
    /\ NoCall
    /\ UNCHANGED <<userLib, mangled, cur, refCalls>>

\* extendZod with a fault: the guard is kept per library copy, so a copy not
\* yet extended is extended whatever was extended before.
ExtendZodKeyed ==
  \E z_0 \in Libs :
    /\ lastExtend' = <<z_0>>
    /\ IF z_0 \in patched
         THEN UNCHANGED <<zod_extended, patched, userLib, mangled, cur, schema,
                          result, refCalls>>
         ELSE /\ zod_extended' = TRUE
              /\ patched' = patched \cup {z_0}
              /\ NoCall
              /\ UNCHANGED <<userLib, mangled, cur, refCalls>>

\* extendZod(z_0): the guard, the refine override, the unique builders and
\* the __zm_type markers, all on the prototypes of the copy z_0.
ExtendZod ==
  \E z_0 \in Libs :
    /\ lastExtend' = <<z_0>>
    /\ IF zod_extended
         THEN UNCHANGED <<zod_extended, patched, userLib, mangled, cur, schema,
                          result, refCalls>>
         ELSE /\ zod_extended' = TRUE
              /\ patched' = patched \cup {z_0}
              /\ NoCall
              /\ UNCHANGED <<userLib, mangled, cur, refCalls>>

\* z.string(), z.number(), ... of the application's copy
NewLeaf ==
  /\ cur = << >>
  /\ result = << >>
  /\ \E kind \in LeafKinds : BuildWith(Leaf(kind, userLib), << >>)

NewId ==
  /\ cur = << >>
  /\ result = << >>
  /\ \E ref \in {Undefined} \cup {Some(r) : r \in Refs} :
       \/ BuildWith(zId(ref), <<ref>>)
       \/ BuildWith(zUUID(ref), <<ref>>)

\* .min(..) / .max(..) on a string or number that carries no own property
SetBounds ==
  /\ cur # << >>
  /\ cur[1].kind \in {"String", "Number"}
  /\ ~IsId(cur[1])
  /\ cur[1].zm_unique = Undefined
  /\ \E lo \in {Undefined, Some(3)}, hi \in {Undefined, Some(255)} :
       /\ lo # Undefined \/ hi # Undefined
       /\ Build([cur[1] EXCEPT !.min = lo, !.max = hi])

\* The node has a unique builder: installed by extendZod on the prototypes of
\* ZodString, ZodNumber and ZodDate of the extended copy, and by zId/zUUID on
\* the identifier node itself.
HasUnique(n) ==
  \/ IsId(n)
  \/ n.kind \in {"String", "Number", "Date"} /\ n.lib \in patched

\* .unique(arg)
Unique ==
  /\ cur # << >>
  /\ HasUnique(cur[1])
  /\ \E arg \in BOOLEAN : Build([cur[1] EXCEPT !.zm_unique = Some(arg)])

\* .ref with a fault: a reference given before is kept.
refKeepFirst(node, r) ==
  IF node.zm_ref = Undefined THEN [node EXCEPT !.zm_ref = Some(r)] ELSE node

\* this.__zm_ref = ref; return this
ref(node, r) == [node EXCEPT !.zm_ref = Some(r)]

Ref ==
  /\ cur # << >>
  /\ IsId(cur[1])
  /\ \E r \in Refs : BuildWith(ref(cur[1], r), Append(refCalls, Some(r)))

RefPath ==
  /\ cur # << >>
  /\ IsId(cur[1])
  /\ \E p \in RefPaths : Build([cur[1] EXCEPT !.zm_refPath = Some(p)])

\* .optional(), .nullable(), .default(v), .array(): methods of the node
Wrap(kind, inner) == [Make(kind, inner.lib) EXCEPT !.kids = <<inner>>]

Optional == cur # << >> /\ Build(Wrap("Optional", cur[1]))

Nullable == cur # << >> /\ Build(Wrap("Nullable", cur[1]))

Default ==
  /\ cur # << >>
  /\ \E v \in DefaultVals :
       Build([Wrap("Default", cur[1]) EXCEPT !.defaultValue = Fn(v)])

Array == cur # << >> /\ Build(Wrap("Array", cur[1]))

AddRefine ==
  /\ cur # << >>
  /\ \E r \in Refinements : Build(Refine(cur[1], r.check, r.message))

\* .transform(fn) and z.preprocess(fn, schema)
Effect(type, inner, lib) ==
  [ Make("Effects", lib) EXCEPT
      !.kids = <<inner>>,
      !.effect = Some([type |-> type, check |-> "fn", zm_validation |-> Undefined]) ]

Transform ==
  /\ cur # << >>
  /\ \/ Build(Effect("transform", cur[1], cur[1].lib))
     \/ Build(Effect("preprocess", cur[1], userLib))

\* z.union([a, b])
Union ==
  /\ cur # << >>
  /\ \/ Build([Make("Union", userLib) EXCEPT !.kids = <<cur[1], Unsupported>>])
     \/ Build([Make("Union", userLib) EXCEPT !.kids = <<Supported, cur[1]>>])

\* z.map(key, value) and z.record(key, value)
MapOf ==
  /\ cur # << >>
  /\ \/ Build([Make("Map", userLib) EXCEPT !.kids = <<Supported, cur[1]>>])
     \/ Build([Make("Map", userLib) EXCEPT !.kids = <<Unsupported, cur[1]>>])
     \/ Build([Make("Record", userLib) EXCEPT !.kids = <<Supported, cur[1]>>])

\* z.object({...}) around the node, alone or next to a sibling
Shapes(n) ==
  { [keys |-> <<"f">>, kids |-> <<n>>],
    [keys |-> <<"g", "f">>, kids |-> <<Supported, n>>] }

ObjectOf(shape) ==
  [Make("Object", userLib) EXCEPT !.keys = shape.keys, !.kids = shape.kids]

Object == cur # << >> /\ \E shape \in Shapes(cur[1]) : Build(ObjectOf(shape))

\* zodSchemaRaw with a fault: the translation writes the uniqueness it reads
\* back to the node.
TranslateWriting ==
  /\ cur # << >>
  /\ \E shape \in Shapes(cur[1]) :
       /\ schema' = <<ObjectOf([shape EXCEPT
                        !.kids[Len(shape.kids)].zm_unique =
                          Some(OrElse(cur[1].zm_unique, FALSE))])>>
       /\ result' = <<zodSchemaRaw(ObjectOf(shape))>>
  /\ cur' = << >>
  /\ Env
  /\ UNCHANGED refCalls

\* zodSchemaRaw(z.object({...})) on the node built so far; schema is the root
\* object as the call leaves it.
Translate ==
  /\ cur # << >>
  /\ \E shape \in Shapes(cur[1]) :
       /\ schema' = <<ObjectOf(shape)>>
       /\ result' = <<zodSchemaRaw(ObjectOf(shape))>>
  /\ cur' = << >>
  /\ Env
  /\ UNCHANGED refCalls

Next ==
  \/ ExtendZod
  \/ NewLeaf
  \/ NewId
  \/ SetBounds
  \/ Unique
  \/ Ref
  \/ RefPath
  \/ Optional
  \/ Nullable
  \/ Default
  \/ Array
  \/ AddRefine
  \/ Transform
  \/ Union
  \/ MapOf
  \/ Object
  \/ Translate

Spec == Init /\ [][Next]_vars

\* ------------------------------------------------------------------ properties
Done == result # << >>

Root == schema[1]

Out == result[1]

Returned == Done /\ ~Thrown(Out)

\* The field "f" of the root, the last of its shape, and its descriptor.
Subject == Root.kids[Len(Root.kids)]

SubjectOut == Out.fields[Len(Out.fields)].val

OutKeys == [i \in DOMAIN Out.fields |-> Out.fields[i].key]

IsDescriptor(x) == ~Thrown(x) /\ ~IsNull(x)

\* No strategy of the classifier and no identifier check accepts the node.
Unrecognised(n) ==
  /\ ~objectId(n)
  /\ ~uuid(n)
  /\ \A key \in Range(ConstructorKeys) : zmAssert(key, n) # "true"

\* The nodes the translation of n descends into: the children of an object,
\* the element of an array, the value of a map, the inner node of a wrapper.
Inner(n) ==
  IF IsId(n) THEN << >>
  ELSE IF n.kind = "Object" THEN n.kids
  ELSE IF n.kind \in {"Map", "Record"} THEN <<n.kids[2]>>
  ELSE IF n.kind \in {"Array", "Default", "Optional", "Nullable", "Effects"}
    THEN <<n.kids[1]>>
  ELSE << >>

RECURSIVE ReachesUnrecognised(_)
ReachesUnrecognised(n) ==
  \/ Unrecognised(n)
  \/ \E i \in DOMAIN Inner(n) : ReachesUnrecognised(Inner(n)[i])

\* Every node of the schema handed to zodSchemaRaw has a recognised kind.
AllRecognised == \A i \in DOMAIN Root.kids : ~ReachesUnrecognised(Root.kids[i])

\* The node under the wrappers of the given kinds.
RECURSIVE Core(_, _)
Core(n, through) ==
  IF ~IsId(n) /\ n.kind \in through THEN Core(n.kids[1], through) ELSE n

\* The number of wrappers of the given kinds on top of the node.
RECURSIVE Layers(_, _)
Layers(n, through) ==
  IF ~IsId(n) /\ n.kind \in through THEN 1 + Layers(n.kids[1], through) ELSE 0

Scalars == {"String", "Number", "Boolean", "Date"}

IsRefinement(n) ==
  /\ ~IsId(n)
  /\ n.kind = "Effects"
  /\ n.effect[1].type = "refinement"
  /\ n.effect[1].zm_validation # Undefined

\* C1: when zodSchemaRaw returns, the keys of the output are exactly the
\* field names of the root schema, in declaration order.
C1_KeySet == Returned => OutKeys = Root.keys

C1_Witness == Returned /\ Len(Root.keys) = 2 /\ OutKeys = <<"g", "f">>

\* C2: when a node the translation descends into (a child, a child of a
\* nested object, an array element, a map value, the inner node of a chain of
\* wrappers) has no recognised kind, the call throws: no output is returned.
C2_UnsupportedFails == (Done /\ ~AllRecognised) => Thrown(Out)

C2_Witness ==
  /\ Done
  /\ Thrown(Out)
  /\ Subject.kind = "Object"
  /\ Len(Subject.keys) = 2
  /\ Unrecognised(Subject.kids[2])
  /\ ~Unrecognised(Subject.kids[1])

\* C3: the error raised for a child that cannot be translated names the
\* field and the constructor of the offending node.
C3_ErrorNamesFieldAndType ==
  (Done /\ Thrown(Out) /\ Unrecognised(Subject)) =>
    /\ Root.keys[Len(Root.keys)] \in Range(Out.message)
    /\ Subject.ctor \in Range(Out.message)

\* C4: a supported node wrapped in optional or nullable translates to a
\* descriptor with required = false.
C4_WrappedNotRequired ==
  (Done /\ AllRecognised /\ ~IsId(Subject) /\ Subject.kind \in {"Optional", "Nullable"}) =>
    Returned /\ SubjectOut.required = FALSE

\* C5: the producer of a has-default wrapper is the default of the
\* descriptor, whatever optional, nullable and has-effect wrappers lie between
\* the wrapper and the builder.
C5_DefaultSurvives ==
  ( /\ Done
    /\ AllRecognised
    /\ ~IsId(Subject)
    /\ Subject.kind = "Default"
    /\ Core(Subject.kids[1], {"Optional", "Nullable", "Effects"}).kind \in Scalars ) =>
    Returned /\ SubjectOut.default = Subject.defaultValue

\* C6: a nullable scalar has required = false and a default that yields null;
\* under a has-default wrapper the collected default is kept.
C6_Nullable ==
  /\ ( /\ Done
       /\ AllRecognised
       /\ Subject.kind = "Nullable"
       /\ Subject.kids[1].kind \in Scalars ) =>
       Returned /\ SubjectOut.required = FALSE /\ SubjectOut.default = Fn("null")
  /\ ( /\ Done
       /\ AllRecognised
       /\ Subject.kind = "Default"
       /\ Subject.kids[1].kind = "Nullable"
       /\ Subject.kids[1].kids[1].kind \in Scalars ) =>
       Returned /\ SubjectOut.required = FALSE
                /\ SubjectOut.default = Subject.defaultValue

\* C7: a refinement directly on a string, number, boolean or date surfaces
\* as validate on the descriptor, and on the element descriptor when the
\* refined scalar is the element of an array.
C7_ValidatorSurfaces ==
  /\ ( /\ Done
       /\ AllRecognised
       /\ IsRefinement(Subject)
       /\ Subject.kids[1].kind \in Scalars ) =>
       /\ Returned
       /\ "validate" \in DOMAIN SubjectOut
       /\ SubjectOut.validate = Subject.effect[1].zm_validation[1]
  /\ ( /\ Done
       /\ AllRecognised
       /\ Subject.kind = "Array"
       /\ IsRefinement(Subject.kids[1])
       /\ Subject.kids[1].kids[1].kind \in Scalars ) =>
       /\ Returned
       /\ "validate" \in DOMAIN SubjectOut.element
       /\ SubjectOut.element.validate = Subject.kids[1].effect[1].zm_validation[1]

\* C8: the validator of a refinement survives the has-default, optional and
\* nullable wrappers between the refinement and the scalar.
C8_ValidatorSurvives ==
  ( /\ Done
    /\ AllRecognised
    /\ IsRefinement(Subject)
    /\ Layers(Subject.kids[1], {"Default", "Optional", "Nullable"}) > 0
    /\ Core(Subject.kids[1], {"Default", "Optional", "Nullable"}).kind
         \in {"String", "Number", "Date"} ) =>
    /\ Returned
    /\ "validate" \in DOMAIN SubjectOut
    /\ SubjectOut.validate = Subject.effect[1].zm_validation[1]

\* C9: a union translates to exactly the descriptor of its first
\* alternative, also when a later alternative is unsupported.
C9_UnionFirstAlternative ==
  ( /\ Done
    /\ ~IsId(Subject)
    /\ Subject.kind = "Union"
    /\ ~Unrecognised(Subject)
    /\ \A i \in DOMAIN Root.kids : i < Len(Root.kids) => ~ReachesUnrecognised(Root.kids[i])
    /\ IsDescriptor(parseField(Subject.kids[1], TRUE, Undefined, Undefined)) ) =>
    Returned /\ SubjectOut = parseField(Subject.kids[1], TRUE, Undefined, Undefined)

\* C10: an identifier descriptor carries exactly the configured attributes:
\* ref, refPath, unique, and sparse = false as sparsity cannot be configured.
C10_IdentifierAttributes ==
  (Returned /\ IsId(Subject)) =>
    /\ SubjectOut.type = Subject.zm_type[1]
    /\ IF Subject.zm_ref # Undefined
         THEN "ref" \in DOMAIN SubjectOut /\ SubjectOut.ref = Subject.zm_ref[1]
         ELSE "ref" \notin DOMAIN SubjectOut
    /\ IF Subject.zm_refPath # Undefined
         THEN "refPath" \in DOMAIN SubjectOut /\ SubjectOut.refPath = Subject.zm_refPath[1]
         ELSE "refPath" \notin DOMAIN SubjectOut
    /\ SubjectOut.unique = OrElse(Subject.zm_unique, FALSE)
    /\ SubjectOut.sparse = FALSE

\* The identifier as zId(r) / zUUID(r) builds it, with the uniqueness and the
\* dynamic field of n.
FreshId(n, r) ==
  [ (IF uuid(n) THEN zUUID(r) ELSE zId(r)) EXCEPT
      !.zm_unique = n.zm_unique, !.zm_refPath = n.zm_refPath ]

\* The collection named last for the identifier under construction.
LastNamed == refCalls[Len(refCalls)]

\* C11: an identifier whose collection was named last by .ref(r), whatever
\* was named before, translates to the descriptor of zId(r) / zUUID(r), with
\* ref = r.
C11_RefEquivalence ==
  (Returned /\ IsId(Subject) /\ Len(refCalls) > 1) =>
    /\ SubjectOut.ref = LastNamed[1]
    /\ SubjectOut = parseField(FreshId(Subject, LastNamed), TRUE, Undefined, Undefined)

C11_Witness ==
  /\ Returned
  /\ uuid(Subject)
  /\ refCalls = <<Some("Store"), Some("Company")>>
  /\ SubjectOut.ref = "Company"

\* The fields of the root before the last one translate.
SiblingsTranslate ==
  \A i \in DOMAIN Root.kids :
    i < Len(Root.kids) => ~ReachesUnrecognised(Root.kids[i])

\* C12: a map or record whose value node translates yields a descriptor of
\* type Map whose `of` is the translation of the value node, whatever the key
\* node is, also a key node of an unsupported kind.
C12_MapValueOnly ==
  ( /\ Done
    /\ ~IsId(Subject)
    /\ Subject.kind \in {"Map", "Record"}
    /\ ~Unrecognised(Subject)
    /\ SiblingsTranslate
    /\ IsDescriptor(parseField(Subject.kids[2], TRUE, Undefined, Undefined)) ) =>
    /\ Returned
    /\ SubjectOut.type = "Map"
    /\ SubjectOut.of = parseField(Subject.kids[2], TRUE, Undefined, Undefined)

\* C13: once extendZod has run, a further call changes neither the flag nor
\* the prototypes: refine is overridden once, the unique builders and the
\* type markers are installed once.
C13_ExtendIdempotent == [][zod_extended => (zod_extended' /\ patched' = patched)]_vars

C13_Witness ==
  /\ zod_extended
  /\ patched = {"own"}
  /\ lastExtend = <<"foreign">>

\* C14: an object wrapped in optional translates to a sub-document with
\* required = false whose entries are the children translated as those of a
\* required object: each child's required flag comes from its own wrappers.
C14_OptionalObject ==
  ( /\ Done
    /\ AllRecognised
    /\ ~IsId(Subject)
    /\ Subject.kind = "Optional"
    /\ Subject.kids[1].kind = "Object" ) =>
    /\ Returned
    /\ SubjectOut.type = "Object"
    /\ SubjectOut.required = FALSE
    /\ SubjectOut.fields = parseObject(Subject.kids[1], TRUE).fields

\* What a string or number node with no other attribute translates to.
PlainScalar(n, out, def) ==
  /\ out.required = TRUE
  /\ out.default = def
  /\ IF n.kind = "String"
       THEN out.type = "String" /\ out.minLength = n.min /\ out.maxLength = n.max
       ELSE out.type = "Number" /\ out.min = n.min /\ out.max = n.max

\* C15: the bounds of a string or number node are copied to its descriptor,
\* an absent bound is absent, and a field with no optional or nullable
\* wrapper is required: alone, under a has-default wrapper (whose producer
\* is the default), and as the element of an array that is required itself.
C15_BoundsCopied ==
  /\ ( /\ Done /\ AllRecognised /\ ~IsId(Subject)
       /\ Subject.kind \in {"String", "Number"} ) =>
       Returned /\ PlainScalar(Subject, SubjectOut, Undefined)
  /\ ( /\ Done /\ AllRecognised /\ ~IsId(Subject)
       /\ Subject.kind = "Default"
       /\ Subject.kids[1].kind \in {"String", "Number"} ) =>
       Returned /\ PlainScalar(Subject.kids[1], SubjectOut, Subject.defaultValue)
  /\ ( /\ Done /\ AllRecognised /\ ~IsId(Subject)
       /\ Subject.kind = "Array"
       /\ Subject.kids[1].kind \in {"String", "Number"} ) =>
       /\ Returned
       /\ SubjectOut.type = "Array"
       /\ SubjectOut.required = TRUE
       /\ PlainScalar(Subject.kids[1], SubjectOut.element, Undefined)

C17_ClassifierTotal ==
  cur # << >> =>
    /\ \A key \in Range(DispatchOrder) : zmAssert(key, cur[1]) \in {"true", "false"}
    /\ Unrecognised(cur[1]) => IsNull(parseField(cur[1], TRUE, Undefined, Undefined))

\* C18: the descriptor of a string, number or date node has unique equal to
\* the argument of the node's last .unique call, false when there was none,
\* and sparse false.
C18_UniqueFlag ==
  ( /\ Done
    /\ AllRecognised
    /\ ~IsId(Subject)
    /\ Subject.kind \in {"String", "Number", "Date"} ) =>
    /\ Returned
    /\ SubjectOut.unique = OrElse(Subject.zm_unique, FALSE)
    /\ SubjectOut.sparse = FALSE

\* The storage constructor of a key node.
KeyConstructor(k) ==
  IF objectId(k) THEN "ObjectId"
  ELSE IF uuid(k) THEN "UUID"
  ELSE IF k.kind = "Enum" THEN "String"
  ELSE k.kind

\* C19: the `of` of a map or record descriptor is the storage constructor of
\* the key node: String for a string or enum key, Number, Date, UUID and
\* ObjectId for a key of that kind.
C19_MapOfKeyConstructor ==
  ( /\ Done
    /\ ~IsId(Subject)
    /\ Subject.kind \in {"Map", "Record"}
    /\ ~Unrecognised(Subject)
    /\ SiblingsTranslate
    /\ ~Unrecognised(Subject.kids[1])
    /\ IsDescriptor(parseField(Subject.kids[2], TRUE, Undefined, Undefined)) ) =>
    /\ Returned
    /\ SubjectOut.of = KeyConstructor(Subject.kids[1])

\* C20: a has-default wrapper with value v around a boolean, enum or array
\* node yields a descriptor whose default is v itself, not a producer of v.
C20_DefaultIsValue ==
  ( /\ Done
    /\ AllRecognised
    /\ ~IsId(Subject)
    /\ Subject.kind = "Default"
    /\ Subject.kids[1].kind \in {"Boolean", "Enum", "Array"} ) =>
    /\ Returned
    /\ SubjectOut.default = Some(Subject.defaultValue[2])

\* The identifier node the subject carries: the subject itself, the inner
\* node of an optional wrapper, the element of an array or the value of a
\* map; << >> when there is none.
CarriedId ==
  IF IsId(Subject) THEN <<Subject>>
  ELSE IF Subject.kind \in {"Optional", "Array"} /\ IsId(Subject.kids[1])
    THEN <<Subject.kids[1]>>
  ELSE IF Subject.kind \in {"Map", "Record"} /\ IsId(Subject.kids[2])
    THEN <<Subject.kids[2]>>
  ELSE << >>

\* The descriptor translated from the carried identifier node.
CarriedOut ==
  IF IsId(Subject) \/ Subject.kind = "Optional" THEN SubjectOut
  ELSE IF Subject.kind = "Array" THEN SubjectOut.element
  ELSE SubjectOut.of

\* C21: a node marked ObjectId or UUID translates to an identifier
\* descriptor of that type, not to the String descriptor of the first
\* alternative of the union it is, also under an optional wrapper, as an
\* array element and as a map value.
C21_IdentifierFirst ==
  (Done /\ SiblingsTranslate /\ ~Unrecognised(Subject) /\ CarriedId # << >>) =>
    /\ Returned
    /\ CarriedOut.type = CarriedId[1].zm_type[1]

\* C22: an optional wrapper under a has-default wrapper clears the default
\* collected from it: the descriptor has required = false and no default.
C22_OptionalClearsDefault ==
  ( /\ Done
    /\ AllRecognised
    /\ ~IsId(Subject)
    /\ Subject.kind = "Default"
    /\ Subject.kids[1].kind = "Optional"
    /\ Subject.kids[1].kids[1].kind \in Scalars ) =>
    /\ Returned
    /\ SubjectOut.required = FALSE
    /\ SubjectOut.default = Undefined

\* C23: a union under optional, nullable or has-default wrappers translates
\* to what its first alternative translates to on its own: required = true,
\* no default and no validator are handed down.
C23_UnionFreshContext ==
  ( /\ Done
    /\ ~IsId(Subject)
    /\ SiblingsTranslate
    /\ ~Unrecognised(Subject)
    /\ Layers(Subject, {"Optional", "Nullable", "Default"}) > 0
    /\ ~IsId(Core(Subject, {"Optional", "Nullable", "Default"}))
    /\ Core(Subject, {"Optional", "Nullable", "Default"}).kind = "Union"
    /\ IsDescriptor(parseField(Core(Subject, {"Optional", "Nullable", "Default"}).kids[1],
                                TRUE, Undefined, Undefined)) ) =>
    /\ Returned
    /\ SubjectOut = parseField(Core(Subject, {"Optional", "Nullable", "Default"}).kids[1],
                               TRUE, Undefined, Undefined)

\* C24: an array translates to a descriptor with the array's own required
\* flag and default, and the descriptor of its element translated on its own
\* (required = true, no default, no validator), also under an optional wrapper.
C24_ArrayFreshElement ==
  /\ ( /\ Done /\ SiblingsTranslate /\ ~IsId(Subject)
       /\ Subject.kind = "Array"
       /\ ~Unrecognised(Subject)
       /\ IsDescriptor(parseField(Subject.kids[1], TRUE, Undefined, Undefined)) ) =>
       /\ Returned
       /\ SubjectOut.type = "Array"
       /\ SubjectOut.required = TRUE
       /\ SubjectOut.default = Undefined
       /\ SubjectOut.element = parseField(Subject.kids[1], TRUE, Undefined, Undefined)
  /\ ( /\ Done /\ SiblingsTranslate /\ ~IsId(Subject)
       /\ Subject.kind = "Optional"
       /\ ~Unrecognised(Subject)
       /\ ~IsId(Subject.kids[1])
       /\ Subject.kids[1].kind = "Array"
       /\ ~Unrecognised(Subject.kids[1])
       /\ IsDescriptor(parseField(Subject.kids[1].kids[1], TRUE, Undefined, Undefined)) ) =>
       /\ Returned
       /\ SubjectOut.type = "Array"
       /\ SubjectOut.required = FALSE
       /\ SubjectOut.element =
            parseField(Subject.kids[1].kids[1], TRUE, Undefined, Undefined)

\* The descriptor has a boolean required flag, true unless relaxed.
Flag(out, relaxed) ==
  /\ "required" \in DOMAIN out
  /\ out.required \in BOOLEAN
  /\ ~relaxed => out.required = TRUE

\* Every descriptor of out, the translation of n, has its flag; relaxed
\* tells whether an optional or nullable wrapper was unwrapped on the way.
RECURSIVE RequiredFlags(_, _, _)
RequiredFlags(n, out, relaxed) ==
  IF IsId(n) THEN Flag(out, relaxed)
  ELSE IF n.kind = "Object" THEN
    /\ "type" \in DOMAIN out => Flag(out, relaxed)
    /\ \A i \in DOMAIN n.kids : RequiredFlags(n.kids[i], out.fields[i].val, FALSE)
  ELSE IF n.kind \in {"Optional", "Nullable"} THEN RequiredFlags(n.kids[1], out, TRUE)
  ELSE IF n.kind \in {"Default", "Effects", "Union"}
    THEN RequiredFlags(n.kids[1], out, relaxed)
  ELSE IF n.kind = "Array"
    THEN Flag(out, relaxed) /\ RequiredFlags(n.kids[1], out.element, FALSE)
  ELSE IF n.kind \in {"Map", "Record"}
    THEN Flag(out, relaxed) /\ RequiredFlags(n.kids[2], out.of, FALSE)
  ELSE Flag(out, relaxed)

\* C25: every field descriptor of a returned output has a boolean required
\* flag, and the flag is true unless an optional or nullable wrapper was
\* unwrapped on the way to the descriptor.
C25_RequiredFlags ==
  Returned =>
    \A i \in DOMAIN Root.kids : RequiredFlags(Root.kids[i], Out.fields[i].val, FALSE)

C25_Witness ==
  /\ Returned
  /\ Len(Root.keys) = 2
  /\ ~IsId(Subject)
  /\ Subject.kind = "Object"
  /\ Len(Subject.keys) = 2
  /\ SubjectOut.fields[2].val.type = "UUID"
  /\ SubjectOut.fields[2].val.required = TRUE

\* The node shows the kind of the key through the marker extendZod registers
\* on the classes of the node's library.
MarkerExposes(key, n) == n.lib \in patched /\ n.kind \in KindsOf(key)

RECURSIVE Size(_)
RECURSIVE SumSizes(_, _)
SumSizes(kids, i) ==
  IF i > Len(kids) THEN 0 ELSE Size(kids[i]) + SumSizes(kids, i + 1)

Size(n) == 1 + SumSizes(n.kids, 1)

\* The branches of parseField that call parseField, parseArray or parseMap.
RecursiveKeys ==
  {"array", "def", "optional", "nullable", "union", "mapOrRecord", "effect"}

\* C27: every node the translation of a node goes on with, the target of a
\* recursive branch or a child of an object, is a strictly smaller tree,
\* and a call ends with an error or with an output mapping.
C27_Terminates ==
  /\ (cur # << >> /\ ~IsId(cur[1])) =>
       /\ \A key \in RecursiveKeys :
            cur[1].kind \in KindsOf(key) => Size(Target(cur[1], key)) < Size(cur[1])
       /\ cur[1].kind = "Object" =>
            \A i \in DOMAIN cur[1].kids : Size(cur[1].kids[i]) < Size(cur[1])
  /\ Done => (Thrown(Out) \/ DOMAIN Out = {"fields"})

C27_Witness ==
  /\ Returned
  /\ ~IsId(Subject)
  /\ Subject.kind = "Object"
  /\ Subject.kids[1].kind = "Object"
  /\ ~IsId(Subject.kids[1])
  /\ Size(Root) = 4

\* C28: two refinements stacked on a string, number or date, both declared
\* with the override in place, translate to a descriptor whose validate is
\* the metadata of the inner refinement, the one declared first.
C28_InnermostValidator ==
  ( /\ Done
    /\ AllRecognised
    /\ IsRefinement(Subject)
    /\ IsRefinement(Subject.kids[1])
    /\ ~IsId(Subject.kids[1].kids[1])
    /\ Subject.kids[1].kids[1].kind \in {"String", "Number", "Date"} ) =>
    /\ Returned
    /\ "validate" \in DOMAIN SubjectOut
    /\ SubjectOut.validate = Subject.kids[1].effect[1].zm_validation[1]

\* C29: once extendZod has run, exactly one library copy is modified, the
\* one of the first call; every other copy, also one a later call was given,
\* has no refine override, no unique builder and no __zm_type marker.
C29_GuardNotKeyed ==
  zod_extended =>
    /\ Cardinality(patched) = 1
    /\ \A b \in Libs \ patched :
         /\ \A r \in Refinements :
              Refine(Leaf("String", b), r.check, r.message).effect[1].zm_validation
                = Undefined
         /\ \A kind \in TypesMap :
              /\ ~HasUnique(Make(kind, b))
              /\ ZmTypeOf(Make(kind, b)) = Undefined

C29_Witness ==
  /\ zod_extended
  /\ patched = {"foreign"}
  /\ lastExtend = <<"own">>
  /\ cur # << >>
  /\ ~IsId(cur[1])
  /\ cur[1].kind = "Effects"
  /\ cur[1].lib = "own"
  /\ cur[1].effect[1].type = "refinement"
  /\ cur[1].effect[1].zm_validation = Undefined
  /\ ZmTypeOf(cur[1]) = Undefined
  /\ ~HasUnique(cur[1].kids[1])

\* C30: a refinement carries metadata only if the override was in place
\* when it was declared, and a refinement on a string, number or date
\* translates to a descriptor with the metadata it carries as validate, and
\* with no validate when it carries none, whether or not extendZod has run
\* by the time of the translation.
C30_CapturedAtDeclaration ==
  /\ ( /\ cur # << >>
       /\ ~IsId(cur[1])
       /\ cur[1].kind = "Effects"
       /\ cur[1].effect[1].type = "refinement"
       /\ cur[1].effect[1].zm_validation # Undefined ) => cur[1].lib \in patched
  /\ ( /\ Done
       /\ AllRecognised
       /\ ~IsId(Subject)
       /\ Subject.kind = "Effects"
       /\ Subject.effect[1].type = "refinement"
       /\ ~IsId(Subject.kids[1])
       /\ Subject.kids[1].kind \in {"String", "Number", "Date"} ) =>
       /\ Returned
       /\ IF Subject.effect[1].zm_validation = Undefined
            THEN "validate" \notin DOMAIN SubjectOut
            ELSE /\ "validate" \in DOMAIN SubjectOut
                 /\ SubjectOut.validate = Subject.effect[1].zm_validation[1]

====
